---- MODULE Spec2Model ----
(***************************************************************************)
(* Host communication and build lifecycle controller of the firmware       *)
(* (firmware/src/Motherboard/Host.cc).  One action per tick of             *)
(* runHostSlice, per public entry point of namespace host, and per step of *)
(* the collaborators (host UART, command queue, SD card, tool link, clock).*)
(***************************************************************************)
EXTENDS Integers, Sequences, FiniteSets, TLC

\* ---------------------------------------------------------------- bounds

\* capacity of the command queue (bytes)
CommandBufferSize == 3
\* capacity of the build name buffer (bytes)
MAX_FILE_LEN == 3

\* ------------------------------------------------------------- constants

\* durations, in milliseconds
HOST_PACKET_TIMEOUT_MS == 200
HOST_TOOL_RESPONSE_TIMEOUT_MS == 50
HOST_RESET_TIMEOUT_MS == 200
CANCEL_TIMEOUT_MS == 1000
ONE_HOUR_MS == 3600000

\* host opcodes (Commands.hh); the high bit marks an action command
HOST_CMD_VERSION == 0
HOST_CMD_INIT == 1
HOST_CMD_ABORT == 7
HOST_CMD_PAUSE == 8
HOST_CMD_TOOL_QUERY == 10
HOST_CMD_PLAYBACK_CAPTURE == 16
HOST_CMD_RESET == 17
HOST_CMD_GET_BUILD_NAME == 20
HOST_CMD_UNKNOWN == 99
HOST_CMD_ACTION == 129

\* opcode sent to the tool by doToolPause
SLAVE_CMD_PAUSE_UNPAUSE == 23

\* response codes (Commands.hh)
RC_OK == 129
RC_BUFFER_OVERFLOW == 130
RC_CRC_MISMATCH == 131
RC_PACKET_LENGTH == 132
RC_CMD_UNSUPPORTED == 133
RC_DOWNSTREAM_TIMEOUT == 135
RC_CANCEL_BUILD == 137
RC_BOT_BUILDING == 138
RC_PACKET_ERROR == 139
RC_PACKET_TIMEOUT == 140

HostStates == {"READY", "BUILDING", "BUILDING_FROM_SD", "CANCEL_BUILD"}
BuildStates ==
    {"NONE", "RUNNING", "PAUSED", "CANCELLING", "CANCELED", "FINISHED_NORMALLY"}
\* command::pauseState(): NONE, entering a pause, PAUSED, leaving a pause
PauseStates == {"NONE", "ENTER", "PAUSED", "EXIT"}

\* the lengths of time (ms) by which the clock advances between two steps
TimeSteps == {500}

\* the step of the clock the print timer reads, in milliseconds
PrintTimeStep == 1800000

\* the tool link's own bound on a transaction, in milliseconds
TOOL_LINK_TIMEOUT_MS == 50

\* the step of the clock the tool sequence reads, in milliseconds
SequenceTimeStep == 25

\* the tool transactions the model lets be open before it stops starting
MaxOpen == 3

\* firmware_version, set at build time
FIRMWARE_VERSION == 407

\* the packets the host sends
Packets ==
    { <<>>, <<HOST_CMD_INIT>>, <<HOST_CMD_RESET>>, <<HOST_CMD_ABORT>>,
      <<HOST_CMD_PAUSE>>, <<HOST_CMD_UNKNOWN>>,
      <<HOST_CMD_TOOL_QUERY>>, <<HOST_CMD_TOOL_QUERY, 0>>,
      <<HOST_CMD_TOOL_QUERY, 0, 1>>,
      <<HOST_CMD_ACTION>>, <<HOST_CMD_ACTION, 1>> }

\* transport errors the packet layer reports on the inbound packet
PacketErrors == {"BAD_CRC", "EXCEEDED_MAX_LENGTH", "NOISE_BYTE"}

\* what the tool link hands back at the end of a transaction:
\* the reply payload, and whether its error state is PACKET_TIMEOUT
ToolResponses ==
    { [timeout |-> FALSE, payload |-> <<RC_OK>>],
      [timeout |-> TRUE, payload |-> <<>>] }

\* names carried by a build start notification, NUL terminated
BuildNames == { <<0>>, <<65, 0>> }

\* ----------------------------------------------------------------- state

VARIABLES
    currentState,           \* HostState
    buildState,             \* BuildState
    do_host_reset, hard_reset, cancelBuild,
    packet_in_timeout, cancel_timeout, do_host_reset_timeout,
    print_time, print_time_hours,
    machineName,            \* bytes before the first NUL
    buildName,              \* the MAX_FILE_LEN bytes of the buffer
    inState, inData, inError,   \* UART::getHostUART().in
    out, outSending,            \* UART::getHostUART().out
    queue, pauseState,          \* namespace command
    copiesToPrint, copiesPrinted,   \* namespace command: the copy counters
    isCapturing, isPlaying,     \* namespace sdcard
    toolLocked,                 \* namespace tool: the lock is taken
    clearForEstop,          \* eeprom::CLEAR_FOR_ESTOP
    toolSeq,                \* the tool transaction sequence, step by step:
                            \* where the handler is and what it has done
    last                    \* the step just taken: the entry point, the branch
                            \* of the tick, what it wrote to the tool, the
                            \* error it indicated

vars ==
    << currentState, buildState, do_host_reset, hard_reset, cancelBuild,
       packet_in_timeout, cancel_timeout, do_host_reset_timeout,
       print_time, print_time_hours, machineName, buildName,
       inState, inData, inError, out, outSending, queue, pauseState,
       isCapturing, isPlaying, toolLocked,
       clearForEstop, toolSeq, copiesToPrint, copiesPrinted, last >>

\* the program's state as one record, threaded through the handlers
Cur ==
    [ currentState |-> currentState, buildState |-> buildState,
      do_host_reset |-> do_host_reset, hard_reset |-> hard_reset,
      cancelBuild |-> cancelBuild,
      packet_in_timeout |-> packet_in_timeout,
      cancel_timeout |-> cancel_timeout,
      do_host_reset_timeout |-> do_host_reset_timeout,
      print_time |-> print_time, print_time_hours |-> print_time_hours,
      machineName |-> machineName, buildName |-> buildName,
      inState |-> inState, inData |-> inData, inError |-> inError,
      out |-> out, outSending |-> outSending,
      queue |-> queue, pauseState |-> pauseState,
      isCapturing |-> isCapturing, isPlaying |-> isPlaying,
      toolLocked |-> toolLocked, toolOut |-> <<>>,
      clearForEstop |-> clearForEstop, indicated |-> "NONE",
      branch |-> "none", finalized |-> FALSE,
      lockTried |-> FALSE, toolRan |-> FALSE ]

\* s without what it records about the step itself
Plain(s) ==
    [s EXCEPT !.branch = "none", !.finalized = FALSE, !.lockTried = FALSE,
              !.toolRan = FALSE, !.indicated = "NONE", !.toolOut = <<>>]

\* the step: the handler's result s0 becomes the state; op names the entry
\* point of the firmware that ran, "env" when a collaborator acted
Set(s0, op) ==
    \E s \in {s0} :
    /\ currentState' = s.currentState
    /\ buildState' = s.buildState
    /\ do_host_reset' = s.do_host_reset
    /\ hard_reset' = s.hard_reset
    /\ cancelBuild' = s.cancelBuild
    /\ packet_in_timeout' = s.packet_in_timeout
    /\ cancel_timeout' = s.cancel_timeout
    /\ do_host_reset_timeout' = s.do_host_reset_timeout
    /\ print_time' = s.print_time
    /\ print_time_hours' = s.print_time_hours
    /\ machineName' = s.machineName
    /\ buildName' = s.buildName
    /\ inState' = s.inState
    /\ inData' = s.inData
    /\ inError' = s.inError
    /\ out' = s.out
    /\ outSending' = s.outSending
    /\ queue' = s.queue
    /\ pauseState' = s.pauseState
    /\ isCapturing' = s.isCapturing
    /\ isPlaying' = s.isPlaying
    /\ toolLocked' = s.toolLocked
    /\ clearForEstop' = s.clearForEstop
    /\ toolSeq' = toolSeq
    /\ UNCHANGED << copiesToPrint, copiesPrinted >>
    /\ last' = [op |-> op, branch |-> s.branch, finalized |-> s.finalized,
                 lockTried |-> s.lockTried, toolRan |-> s.toolRan,
                 indicated |-> s.indicated, toolOut |-> s.toolOut,
                 changed |-> op # "env" /\ Plain(s) # Cur]

\* --------------------------------------------------------------- Timeout

TimeoutNew == [active |-> FALSE, elapsed |-> FALSE, paused |-> FALSE, left |-> 0]

TimeoutStart(d) ==
    [active |-> TRUE, elapsed |-> FALSE, paused |-> FALSE, left |-> d]

\* the timeout after a call of hasElapsed(), which latches the expiry
TimeoutPoll(t) ==
    IF t.active /\ ~t.elapsed /\ ~t.paused /\ t.left = 0
    THEN [t EXCEPT !.active = FALSE, !.elapsed = TRUE]
    ELSE t

TimeoutAbort(t) == [t EXCEPT !.active = FALSE, !.left = 0]

TimeoutPause(t, p) == [t EXCEPT !.paused = p]

\* the timeout after d milliseconds have passed
TimeoutElapse(t, d) ==
    IF t.active /\ ~t.paused
    THEN [t EXCEPT !.left = IF t.left > d THEN t.left - d ELSE 0]
    ELSE t

\* ------------------------------------------------------ namespace command

isPaused(s) == s.pauseState \in {"ENTER", "PAUSED"}

pauseIntermediateState(s) == s.pauseState \in {"ENTER", "EXIT"}

\* command::pause(pause, heaterControl)
commandPause(s, pause) ==
    [s EXCEPT !.pauseState = IF pause THEN "ENTER" ELSE "EXIT"]

getRemainingCapacity(s) == CommandBufferSize - Len(s.queue)

\* CircularBuffer::push: a byte pushed on a full buffer is dropped
push(q, b) == IF Len(q) < CommandBufferSize THEN Append(q, b) ELSE q

RECURSIVE pushAll(_, _, _)
\* the loop of processCommandPacket: push bytes i..Len(pkt) of the packet
pushAll(q, pkt, i) ==
    IF i > Len(pkt) THEN q ELSE pushAll(push(q, pkt[i]), pkt, i + 1)

\* reset(hard_reset) of Main.cc, as far as this state goes
boardReset(s) ==
    [s EXCEPT !.queue = <<>>, !.pauseState = "NONE",
              !.isPlaying = FALSE, !.isCapturing = FALSE]

\* ---------------------------------------------------- build lifecycle

stopPrintTime(s) ==
    [s EXCEPT !.print_time = TimeoutNew, !.print_time_hours = 0]

startPrintTime(s) ==
    [s EXCEPT !.print_time = TimeoutStart(ONE_HOUR_MS), !.print_time_hours = 0]

managePrintTime(s) ==
    LET t == TimeoutPoll(s.print_time) IN
    IF t.elapsed
    THEN [s EXCEPT !.print_time = TimeoutStart(ONE_HOUR_MS),
                   !.print_time_hours = (s.print_time_hours + 1) % 256]
    ELSE [s EXCEPT !.print_time = t]

\* stopBuildNow that arms the cancel notification for a build from SD too
stopBuildNow_AnyBuild(s) ==
    LET s1 == IF s.currentState \in {"BUILDING", "BUILDING_FROM_SD"}
              THEN [s EXCEPT !.currentState = "CANCEL_BUILD",
                             !.cancel_timeout = TimeoutStart(CANCEL_TIMEOUT_MS),
                             !.cancelBuild = TRUE]
              ELSE s
        s2 == stopPrintTime(s1)
    IN  [s2 EXCEPT !.do_host_reset = TRUE,
                   !.do_host_reset_timeout = TimeoutStart(HOST_RESET_TIMEOUT_MS),
                   !.buildState = "CANCELED"]

stopBuildNow(s) ==
    LET s1 == IF s.currentState = "BUILDING"
              THEN [s EXCEPT !.currentState = "CANCEL_BUILD",
                             !.cancel_timeout = TimeoutStart(CANCEL_TIMEOUT_MS),
                             !.cancelBuild = TRUE]
              ELSE s
        s2 == stopPrintTime(s1)
    IN  [s2 EXCEPT !.do_host_reset = TRUE,
                   !.do_host_reset_timeout = TimeoutStart(HOST_RESET_TIMEOUT_MS),
                   !.buildState = "CANCELED"]

stopBuild(s) ==
    LET s1 == [s EXCEPT !.buildState = "CANCELLING"] IN
    IF isPaused(s1) \/ pauseIntermediateState(s1)
    THEN stopBuildNow(s1)
    ELSE commandPause(s1, TRUE)

\* pauseBuild without the test of the intermediate state
pauseBuild_NoSettleTest(s, pause) ==
    IF pause = isPaused(s) THEN s
    ELSE LET s1 == commandPause(s, pause) IN
         IF pause
         THEN [s1 EXCEPT !.buildState = "PAUSED",
                         !.print_time = TimeoutPause(s1.print_time, TRUE)]
         ELSE [s1 EXCEPT !.buildState = "RUNNING",
                         !.print_time = TimeoutPause(s1.print_time, FALSE)]

pauseBuild(s, pause) ==
    IF pause = isPaused(s) THEN s
    ELSE IF pauseIntermediateState(s) THEN s
    ELSE LET s1 == commandPause(s, pause) IN
         IF pause
         THEN [s1 EXCEPT !.buildState = "PAUSED",
                         !.print_time = TimeoutPause(s1.print_time, TRUE)]
         ELSE [s1 EXCEPT !.buildState = "RUNNING",
                         !.print_time = TimeoutPause(s1.print_time, FALSE)]

resetBuild(s) ==
    [s EXCEPT !.machineName = <<>>,
              !.buildName = [s.buildName EXCEPT ![1] = 0],
              !.currentState = "READY"]

\* buildName[i] = b, i counting from 1; a store outside the array shows as an
\* index the array does not have
storeByte(name, i, b) ==
    IF i \in DOMAIN name THEN [name EXCEPT ![i] = b] ELSE name @@ (i :> b)

RECURSIVE copyStartName(_, _, _)
\* the do-while of handleBuildStartNotification: buildName[idx++] = buf.pop()
\* until a NUL was stored or idx reached sizeof(buildName); idx counts from 0,
\* and a pop from an emptied buffer yields 0
copyStartName(name, buf, idx) ==
    LET b == IF buf = <<>> THEN 0 ELSE Head(buf)
        rest == IF buf = <<>> THEN <<>> ELSE Tail(buf)
        name1 == storeByte(name, idx + 1, b)
    IN  IF b # 0 /\ idx + 1 < MAX_FILE_LEN
        THEN copyStartName(name1, rest, idx + 1)
        ELSE name1

handleBuildStartNotification(s, buf) ==
    LET s1 == CASE s.currentState = "BUILDING_FROM_SD" -> s
                []  s.currentState = "READY" ->
                        [s EXCEPT !.currentState = "BUILDING",
                                  !.buildName = copyStartName(s.buildName, buf, 0)]
                []  s.currentState = "BUILDING" ->
                        [s EXCEPT !.buildName = copyStartName(s.buildName, buf, 0)]
                []  OTHER -> s
        s2 == startPrintTime(s1)
    IN  [s2 EXCEPT !.buildState = "RUNNING"]

\* handleBuildStopNotification that wants the count of printed copies
\* past copiesToPrint - 1
handleBuildStopNotification_Strict(s, toPrint, printed) ==
    IF toPrint = 0 \/ printed > toPrint - 1
    THEN LET s1 == stopPrintTime(s) IN
         [s1 EXCEPT !.buildState = "FINISHED_NORMALLY",
                    !.currentState = "READY"]
    ELSE s

handleBuildStopNotification(s, toPrint, printed) ==
    IF toPrint = 0 \/ printed >= toPrint - 1
    THEN LET s1 == stopPrintTime(s) IN
         [s1 EXCEPT !.buildState = "FINISHED_NORMALLY",
                    !.currentState = "READY"]
    ELSE s

RECURSIVE copyFileName(_, _, _)
\* the while loop of startBuildFromSD; i counts from 0
copyFileName(name, fname, i) ==
    IF i + 1 > Len(fname) \/ fname[i + 1] = 0
    THEN storeByte(name, i + 1, 0)
    ELSE LET name1 == storeByte(name, i + 1, fname[i + 1]) IN
         IF i + 1 >= MAX_FILE_LEN - 1
         THEN storeByte(name1, i + 2, 0)
         ELSE copyFileName(name1, fname, i + 1)

\* fname = <<>> stands for the null pointer; e is what sdcard::startPlayback
\* returns
startBuildFromSD(s, fname, e) ==
    LET s1 == IF fname = <<>> THEN s
              ELSE [s EXCEPT !.buildName = copyFileName(s.buildName, fname, 0)]
    IN  IF e # "SD_SUCCESS" THEN s1
        ELSE [s1 EXCEPT !.queue = <<>>, !.pauseState = "NONE",
                        !.isPlaying = TRUE,
                        !.currentState = "BUILDING_FROM_SD"]

\* ------------------------------------------------------ packet handlers

append8(s, b) == [s EXCEPT !.out = Append(s.out, b)]

\* hasRoom with the test of a free byte instead of room for the command
hasRoom_AnyRoom(capacity, command_length) == capacity > 0

\* the test that guards the push loop of processCommandPacket
hasRoom(capacity, command_length) == capacity >= command_length

\* s.inData is the finished inbound packet.  The result carries the field
\* handled: the function's return value.
processCommandPacket(s) ==
    LET pkt == s.inData
        no == [s EXCEPT !.branch = "unhandled"]
    IN  IF Len(pkt) >= 1 /\ pkt[1] >= 128
        THEN IF s.isCapturing
             THEN [append8(s, RC_OK) EXCEPT !.branch = "capture"]
             ELSE IF s.isPlaying
             THEN [append8(s, RC_BOT_BUILDING) EXCEPT !.branch = "busy"]
             ELSE IF hasRoom(getRemainingCapacity(s), Len(pkt))
             THEN [append8(s, RC_OK) EXCEPT
                       !.queue = pushAll(s.queue, pkt, 1),
                       !.branch = "command"]
             ELSE [append8(s, RC_BUFFER_OVERFLOW) EXCEPT !.branch = "overflow"]
        ELSE no

\* from_host.read16(idx): two bytes, low byte first
read16(pkt, idx) == pkt[idx + 1] + 256 * pkt[idx + 2]

\* the value of an unsigned 16 bit number stored in an int16_t
toInt16(v) == IF v >= 32768 THEN v - 65536 ELSE v

\* to_host.append16(v): low byte first
append16(s, v) == append8(append8(s, v % 256), v \div 256)

\* versionTooOld without the carve-out for version 29
versionTooOld_NoCarveOut(rv) == rv < 39

\* the test of handleVersion on the host version it has read
versionTooOld(rv) == (rv # 29) /\ (rv < 39)

handleVersion(s) ==
    LET rv == toInt16(read16(s.inData, 1)) IN
    IF versionTooOld(rv)
    THEN append16(append8(s, RC_OK), 0)
    ELSE append16(append8(s, RC_OK), FIRMWARE_VERSION)

\* toolQueryTooShort that only rejects the empty packet
toolQueryTooShort_Empty(length) == length < 1

\* the sanity test at the head of handleToolQuery
toolQueryTooShort(length) == length < 2

\* the part of doToolPause and handleToolQuery after the tool packet is
\* composed: tr is what the tool link ends the transaction with
toolTransaction(s, payload, tr) ==
    LET s1 == [s EXCEPT !.toolOut = payload, !.toolRan = TRUE] IN
    IF tr.timeout
    THEN append8(s1, RC_DOWNSTREAM_TIMEOUT)
    ELSE [s1 EXCEPT !.out = s1.out \o tr.payload]

\* lockTimeout that has reset and written the tool packet before giving up
lockTimeout_WritesTool(s) ==
    [append8(s, RC_DOWNSTREAM_TIMEOUT) EXCEPT
        !.indicated = "ERR_SLAVE_LOCK_TIMEOUT", !.lockTried = TRUE,
        !.toolOut = <<0, SLAVE_CMD_PAUSE_UNPAUSE>>]

\* the lock loop: the lock is free, or stays taken until the 50 ms are over
lockTimeout(s) ==
    [append8(s, RC_DOWNSTREAM_TIMEOUT) EXCEPT
        !.indicated = "ERR_SLAVE_LOCK_TIMEOUT", !.lockTried = TRUE]

doToolPause(s, tr) ==
    IF s.toolLocked
    THEN lockTimeout(s)
    ELSE toolTransaction([s EXCEPT !.lockTried = TRUE],
                         <<0, SLAVE_CMD_PAUSE_UNPAUSE>>, tr)

handleToolQuery(s, tr) ==
    IF toolQueryTooShort(Len(s.inData))
    THEN [append8(s, RC_PACKET_ERROR) EXCEPT
             !.indicated = "ERR_HOST_TRUNCATED_CMD"]
    ELSE IF s.toolLocked
    THEN lockTimeout(s)
    ELSE toolTransaction([s EXCEPT !.lockTried = TRUE], Tail(s.inData), tr)

handlePause(s, tr) ==
    LET s1 == IF ~pauseIntermediateState(s)
              THEN doToolPause(pauseBuild(s, ~isPaused(s)), tr)
              ELSE s
    IN  append8(s1, RC_OK)

\* handleReset that raises the indicator but never stops the build: the
\* reset is requested whatever the policy says
handleReset_NoDivert(s) ==
    LET building == s.currentState \in {"BUILDING", "BUILDING_FROM_SD"}
        s1 == IF building
              THEN [s EXCEPT !.indicated = "ERR_RESET_DURING_BUILD"]
              ELSE s
    IN  append8([s1 EXCEPT !.do_host_reset = TRUE,
                           !.do_host_reset_timeout =
                               TimeoutStart(HOST_RESET_TIMEOUT_MS)], RC_OK)

\* case HOST_CMD_CLEAR_BUFFER, HOST_CMD_ABORT, HOST_CMD_RESET
handleReset(s) ==
    LET building == s.currentState \in {"BUILDING", "BUILDING_FROM_SD"}
        divert == building /\ s.clearForEstop = 1
        s1 == IF divert
              THEN stopBuild([s EXCEPT !.buildState = "CANCELED"])
              ELSE s
        s2 == IF building
              THEN [s1 EXCEPT !.indicated = "ERR_RESET_DURING_BUILD"]
              ELSE s1
        s3 == IF ~divert
              THEN [s2 EXCEPT !.do_host_reset = TRUE,
                              !.do_host_reset_timeout =
                                  TimeoutStart(HOST_RESET_TIMEOUT_MS)]
              ELSE s2
    IN  append8(s3, RC_OK)

RECURSIVE sendBuildName(_, _)
\* the for loop of handleGetBuildName; idx counts from 0
sendBuildName(s, idx) ==
    IF idx >= MAX_FILE_LEN THEN s
    ELSE LET s1 == append8(s, s.buildName[idx + 1]) IN
         IF s.buildName[idx + 1] = 0 THEN s1 ELSE sendBuildName(s1, idx + 1)

handleGetBuildName(s) == sendBuildName(append8(s, RC_OK), 0)

RECURSIVE copyPlaybackName(_, _, _)
\* the for loop of handlePlayback: buildName[idx-1] = from_host.read8(idx);
\* read8(idx) is pkt[idx + 1], buildName[idx-1] is the array's place idx
copyPlaybackName(name, pkt, idx) ==
    IF idx < Len(pkt) /\ idx < MAX_FILE_LEN
    THEN copyPlaybackName(storeByte(name, idx, pkt[idx + 1]), pkt, idx + 1)
    ELSE name

\* tr.sd is what sdcard::startPlayback returns; the reply carries the value
\* startBuildFromSD returns, 0 for SD_SUCCESS
handlePlayback(s, tr) ==
    LET s1 == append8(s, RC_OK)
        name == storeByte(copyPlaybackName(s.buildName, s.inData, 1),
                          MAX_FILE_LEN, 0)
        s2 == startBuildFromSD([s1 EXCEPT !.buildName = name], <<>>, tr.sd)
    IN  append8(s2, IF tr.sd \in {"SD_SUCCESS", "SD_CWD"} THEN 0 ELSE 1)

processQueryPacket(s, tr) ==
    LET pkt == s.inData
        yes(r) == [r EXCEPT !.branch = "query"]
    IN  IF Len(pkt) >= 1 /\ pkt[1] < 128
        THEN CASE pkt[1] = HOST_CMD_VERSION -> yes(handleVersion(s))
               [] pkt[1] = HOST_CMD_INIT -> yes(append8(s, RC_OK))
               [] pkt[1] \in {HOST_CMD_ABORT, HOST_CMD_RESET} -> yes(handleReset(s))
               [] pkt[1] = HOST_CMD_PAUSE -> yes(handlePause(s, tr))
               [] pkt[1] = HOST_CMD_TOOL_QUERY -> yes(handleToolQuery(s, tr))
               [] pkt[1] = HOST_CMD_GET_BUILD_NAME -> yes(handleGetBuildName(s))
               [] pkt[1] = HOST_CMD_PLAYBACK_CAPTURE -> yes(handlePlayback(s, tr))
               [] OTHER -> [s EXCEPT !.branch = "unhandled"]
        ELSE [s EXCEPT !.branch = "unhandled"]

\* ---------------------------------------------------------- runHostSlice

\* holdForSend without the guard: hold whenever the reply is on its way out
holdForSend_NoGuard(sending, reset_pending, guardElapsed) == sending

\* holdForSend that lets a pending reset through at once
holdForSend_NoWait(sending, reset_pending, guardElapsed) ==
    sending /\ ~reset_pending

\* the test that returns from the tick while the reply is on its way out;
\* guardElapsed is do_host_reset_timeout.hasElapsed()
holdForSend(sending, reset_pending, guardElapsed) ==
    sending /\ (~reset_pending \/ (reset_pending /\ ~guardElapsed))

\* resetDue without the wait for the cancel notification
resetDue_NoGrace(reset_pending, cancel_pending, graceElapsed) == reset_pending

\* the test of the soft reset; graceElapsed is cancel_timeout.hasElapsed()
resetDue(reset_pending, cancel_pending, graceElapsed) ==
    reset_pending /\ (~cancel_pending \/ graceElapsed)

\* the body of the soft reset branch
\* doHostReset that leaves the request flag as it is
doHostReset_KeepsRequest(s) ==
    LET s1 == IF s.buildState \in {"RUNNING", "PAUSED"} THEN stopBuild(s) ELSE s
        s2 == boardReset(s1)
    IN  [s2 EXCEPT !.hard_reset = FALSE,
                   !.packet_in_timeout = TimeoutAbort(s2.packet_in_timeout),
                   !.machineName = <<>>,
                   !.buildName = [s2.buildName EXCEPT ![1] = 0],
                   !.currentState = "READY",
                   !.branch = "reset"]

doHostReset(s) ==
    LET s1 == IF s.buildState \in {"RUNNING", "PAUSED"} THEN stopBuild(s) ELSE s
        s2 == boardReset([s1 EXCEPT !.do_host_reset = FALSE])
    IN  [s2 EXCEPT !.hard_reset = FALSE,
                   !.packet_in_timeout = TimeoutAbort(s2.packet_in_timeout),
                   !.machineName = <<>>,
                   !.buildName = [s2.buildName EXCEPT ![1] = 0],
                   !.currentState = "READY",
                   !.branch = "reset"]

\* packetTimeout that times a packet out but never arms the timeout
packetTimeout_NeverArms(s) ==
    IF s.inState = "started" /\ s.packet_in_timeout.active
    THEN LET t == TimeoutPoll(s.packet_in_timeout) IN
         IF t.elapsed
         THEN [s EXCEPT !.packet_in_timeout = t, !.inState = "error",
                        !.inError = "PACKET_TIMEOUT"]
         ELSE [s EXCEPT !.packet_in_timeout = t]
    ELSE s

\* "new packet coming in": arm the packet timeout, or time the packet out
packetTimeout(s) ==
    IF s.inState = "started"
    THEN IF ~s.packet_in_timeout.active
         THEN [s EXCEPT !.packet_in_timeout = TimeoutStart(HOST_PACKET_TIMEOUT_MS)]
         ELSE LET t == TimeoutPoll(s.packet_in_timeout) IN
              IF t.elapsed
              THEN [s EXCEPT !.packet_in_timeout = t, !.inState = "error",
                             !.inError = "PACKET_TIMEOUT"]
              ELSE [s EXCEPT !.packet_in_timeout = t]
    ELSE s

errorCode(e) ==
    CASE e = "PACKET_TIMEOUT" -> RC_PACKET_TIMEOUT
      [] e = "BAD_CRC" -> RC_CRC_MISMATCH
      [] e = "EXCEEDED_MAX_LENGTH" -> RC_PACKET_LENGTH
      [] OTHER -> RC_PACKET_ERROR

inReset(s) == [s EXCEPT !.inState = "idle", !.inData = <<>>, !.inError = "NO_ERROR"]

beginSend(s) == [s EXCEPT !.outSending = TRUE]

\* the branch if (in.hasError())
reportError(s) ==
    LET s1 == [s EXCEPT !.packet_in_timeout = TimeoutAbort(s.packet_in_timeout),
                        !.out = <<errorCode(s.inError)>>]
    IN  [beginSend(inReset(s1)) EXCEPT !.indicated = "ERR_HOST_PACKET_MISC",
                                       !.branch = "error"]

\* dispatch that looks at the cancel notification only after the command
\* handler has turned the packet down
dispatch_CommandsFirst(s, tr) ==
    LET s1 == [s EXCEPT !.packet_in_timeout = TimeoutAbort(s.packet_in_timeout),
                        !.out = <<>>]
        c == processCommandPacket(s1)
        q == processQueryPacket(s1, tr)
        s2 == IF c.branch # "unhandled" THEN c
              ELSE IF s1.cancelBuild
              THEN [append8(s1, RC_CANCEL_BUILD) EXCEPT
                       !.cancelBuild = FALSE,
                       !.indicated = "ERR_CANCEL_BUILD",
                       !.branch = "cancel"]
              ELSE IF q.branch # "unhandled" THEN q
              ELSE [append8(s1, RC_CMD_UNSUPPORTED) EXCEPT !.branch = "unsupported"]
    IN  beginSend(inReset(s2))

\* dispatch that goes on to the unsupported fallback after a query handler
\* has answered
dispatch_FallsThrough(s, tr) ==
    LET s1 == [s EXCEPT !.packet_in_timeout = TimeoutAbort(s.packet_in_timeout),
                        !.out = <<>>]
        c == processCommandPacket(s1)
        q == processQueryPacket(s1, tr)
        s2 == IF s1.cancelBuild
              THEN [append8(s1, RC_CANCEL_BUILD) EXCEPT
                       !.cancelBuild = FALSE,
                       !.indicated = "ERR_CANCEL_BUILD",
                       !.branch = "cancel"]
              ELSE IF c.branch # "unhandled" THEN c
              ELSE IF q.branch # "unhandled" THEN append8(q, RC_CMD_UNSUPPORTED)
              ELSE [append8(s1, RC_CMD_UNSUPPORTED) EXCEPT !.branch = "unsupported"]
    IN  beginSend(inReset(s2))

\* the branch else if (in.isFinished() == 1)
dispatch(s, tr) ==
    LET s1 == [s EXCEPT !.packet_in_timeout = TimeoutAbort(s.packet_in_timeout),
                        !.out = <<>>]
        c == processCommandPacket(s1)
        q == processQueryPacket(s1, tr)
        s2 == IF s1.cancelBuild
              THEN [append8(s1, RC_CANCEL_BUILD) EXCEPT
                       !.cancelBuild = FALSE,
                       !.indicated = "ERR_CANCEL_BUILD",
                       !.branch = "cancel"]
              ELSE IF c.branch # "unhandled" THEN c
              ELSE IF q.branch # "unhandled" THEN q
              ELSE [append8(s1, RC_CMD_UNSUPPORTED) EXCEPT !.branch = "unsupported"]
    IN  beginSend(inReset(s2))

\* the end of the tick: SD playback over, print time
sliceTail(s) ==
    LET s1 == IF s.currentState = "BUILDING_FROM_SD" /\ ~s.isPlaying
              THEN [s EXCEPT !.currentState = "READY"]
              ELSE s
    IN  managePrintTime(s1)

\* finalizeCancel that does not wait for the pause to complete
finalizeCancel_WhilePausing(s) ==
    IF s.buildState = "CANCELLING" /\ isPaused(s)
    THEN [stopBuildNow(s) EXCEPT !.finalized = TRUE]
    ELSE s

\* the head of the tick: a cancel whose pause has completed is finalized
finalizeCancel(s) ==
    IF s.buildState = "CANCELLING" /\ s.pauseState = "PAUSED"
    THEN [stopBuildNow(s) EXCEPT !.finalized = TRUE]
    ELSE s

\* the send gate calls do_host_reset_timeout.hasElapsed() only when the
\* reply is on its way out and a reset is pending (&& and || cut short)
pollResetGuard(s) ==
    IF s.outSending /\ s.do_host_reset
    THEN [s EXCEPT !.do_host_reset_timeout = TimeoutPoll(s.do_host_reset_timeout)]
    ELSE s

\* the soft reset test calls cancel_timeout.hasElapsed() only when a reset
\* and a cancel notification are pending
pollCancelGrace(s) ==
    IF s.do_host_reset /\ s.cancelBuild
    THEN [s EXCEPT !.cancel_timeout = TimeoutPoll(s.cancel_timeout)]
    ELSE s

\* the tick from the send gate on.  gate is the state the send gate has
\* left, rst the state the soft reset test has left, pkt the state after
\* the packet timeout was armed or checked; each is the one before it
\* unless a timeout was polled on the way
runHostSlice(gate, rst, pkt, tr) ==
    IF holdForSend(gate.outSending, gate.do_host_reset,
                   gate.do_host_reset_timeout.elapsed)
    THEN [gate EXCEPT !.branch = "hold"]
    ELSE IF resetDue(rst.do_host_reset, rst.cancelBuild,
                     rst.cancel_timeout.elapsed)
    THEN doHostReset(rst)
    ELSE IF pkt.inState = "error" THEN sliceTail(reportError(pkt))
    ELSE IF pkt.inState = "finished" THEN sliceTail(dispatch(pkt, tr))
    ELSE sliceTail([pkt EXCEPT !.branch = "idle"])

\* ------------------------------------- the tool sequence, step by step

\* The sequence of doToolPause and of handleToolQuery past its length
\* check, with the two while loops taken one pass at a time.  q is the
\* record of the sequence: pc is where the handler is, acquire the time
\* left of acquire_lock_timeout, open the number of tool transactions
\* started and not yet done, linkLeft the time left of the tool link's own
\* timeout, arrived whether the tool's reply is in, reply what the
\* sequence has appended to the host reply, starts the calls of
\* startTransaction of this invocation, iter the loop whose body ran last
\* and sliced whether that pass called runToolSlice.
ToolSeqIdle ==
    [ pc |-> "idle", who |-> "none", request |-> <<>>, acquire |-> 0,
      open |-> 0, linkLeft |-> 0, arrived |-> FALSE, linkErr |-> "NO_ERROR",
      linkIn |-> <<>>, toolOut |-> <<>>, reply |-> <<>>, starts |-> 0,
      indicated |-> "NONE", iter |-> "none", sliced |-> FALSE ]

\* acquire_lock_timeout.start(HOST_TOOL_RESPONSE_TIMEOUT_MICROS)
enterSequence(q, who, request) ==
    [q EXCEPT !.pc = "lock", !.who = who, !.request = request,
              !.acquire = HOST_TOOL_RESPONSE_TIMEOUT_MS,
              !.reply = <<>>, !.starts = 0, !.indicated = "NONE",
              !.iter = "none", !.sliced = FALSE]

\* tool::startTransaction
startTransaction(q) ==
    [q EXCEPT !.open = q.open + 1, !.linkLeft = TOOL_LINK_TIMEOUT_MS,
              !.arrived = FALSE, !.linkErr = "NO_ERROR", !.linkIn = <<>>]

\* tool::runToolSlice: the transaction is done when the reply is in, or
\* when the link's own timeout is over
runToolSlice(q) ==
    IF q.open = 0 THEN q
    ELSE IF q.arrived THEN [q EXCEPT !.open = q.open - 1]
    ELSE IF q.linkLeft = 0
    THEN [q EXCEPT !.open = q.open - 1, !.linkErr = "PACKET_TIMEOUT"]
    ELSE q

\* the body of the lock loop when the timeout is over
giveUpLock(q) ==
    [q EXCEPT !.reply = Append(q.reply, RC_DOWNSTREAM_TIMEOUT),
              !.indicated = "ERR_SLAVE_LOCK_TIMEOUT",
              !.pc = "idle", !.iter = "lock", !.sliced = FALSE]

\* from out.reset() to tool::releaseLock(): the lock is held for these
\* lines only
handOff(q) ==
    [startTransaction([q EXCEPT !.toolOut = q.request]) EXCEPT
        !.starts = q.starts + 1, !.pc = "pump"]

\* one pass of while (!tool::getLock()) and what follows when it is left
lockLoopPass(q, locked) ==
    IF ~locked THEN handOff(q)
    ELSE IF q.acquire = 0 THEN giveUpLock(q)
    ELSE [q EXCEPT !.iter = "lock", !.sliced = FALSE]

\* pumpLoopExits that does not wait for the transaction
pumpLoopExits_AtOnce(q) == TRUE

\* the test of while (!tool::isTransactionDone())
pumpLoopExits(q) == q.open = 0

\* copyToolReply that copies the payload whatever the error state is
copyToolReply_AfterTimeout(q) ==
    LET q1 == IF q.linkErr = "PACKET_TIMEOUT"
              THEN [q EXCEPT !.reply = Append(q.reply, RC_DOWNSTREAM_TIMEOUT)]
              ELSE q
    IN  [q1 EXCEPT !.reply = q1.reply \o <<RC_OK>>, !.pc = "idle"]

\* the lines after the pump loop
copyToolReply(q) ==
    IF q.linkErr = "PACKET_TIMEOUT"
    THEN [q EXCEPT !.reply = Append(q.reply, RC_DOWNSTREAM_TIMEOUT),
                   !.pc = "idle"]
    ELSE [q EXCEPT !.reply = q.reply \o q.linkIn, !.pc = "idle"]

\* one pass of while (!tool::isTransactionDone()) and what follows when
\* it is left
pumpLoopPass(q) ==
    IF pumpLoopExits(q) THEN copyToolReply(q)
    ELSE [runToolSlice(q) EXCEPT !.iter = "pump", !.sliced = TRUE]

\* ---------------------------------------------------------------- actions

Init ==
    /\ currentState = "READY"
    /\ buildState = "NONE"
    /\ do_host_reset = FALSE
    /\ hard_reset = FALSE
    /\ cancelBuild = FALSE
    /\ packet_in_timeout = TimeoutNew
    /\ cancel_timeout = TimeoutNew
    /\ do_host_reset_timeout = TimeoutNew
    /\ print_time = TimeoutNew
    /\ print_time_hours = 0
    /\ machineName = <<>>
    /\ buildName = [i \in 1..MAX_FILE_LEN |-> 0]
    /\ inState = "idle"
    /\ inData = <<>>
    /\ inError = "NO_ERROR"
    /\ out = <<>>
    /\ outSending = FALSE
    /\ queue = <<>>
    /\ pauseState = "NONE"
    /\ isCapturing = FALSE
    /\ isPlaying = FALSE
    /\ toolLocked = FALSE
    /\ clearForEstop \in {0, 1}
    /\ toolSeq = ToolSeqIdle
    /\ copiesToPrint = 0
    /\ copiesPrinted = 0
    /\ last = [op |-> "env", branch |-> "none", finalized |-> FALSE,
               lockTried |-> FALSE, toolRan |-> FALSE, indicated |-> "NONE",
               toolOut |-> <<>>, changed |-> FALSE]

\* one call of runHostSlice by the main loop
Tick(responses) ==
    \E tr \in responses :
    \E s1 \in {finalizeCancel(Cur)} :
    \E s2 \in {pollResetGuard(s1)} :
    \E s3 \in {pollCancelGrace(s2)} :
    \E s4 \in {packetTimeout(s3)} :
        Set(runHostSlice(s2, s3, s4, tr), "tick")

\* the clock advances while no code of this module runs
AdvanceTime ==
    \E d \in TimeSteps :
        /\ \E t \in {packet_in_timeout, cancel_timeout, do_host_reset_timeout} :
               t.active /\ t.left > 0
        /\ Set([Cur EXCEPT
                 !.packet_in_timeout = TimeoutElapse(packet_in_timeout, d),
                 !.cancel_timeout = TimeoutElapse(cancel_timeout, d),
                 !.do_host_reset_timeout = TimeoutElapse(do_host_reset_timeout, d)],
               "env")

\* host UART: the first bytes of a packet arrive
HostStartsPacket ==
    /\ inState = "idle"
    /\ Set([Cur EXCEPT !.inState = "started"], "env")

\* host UART: the last byte of a packet arrives
HostFinishesPacket(packets) ==
    /\ inState \in {"idle", "started"}
    /\ \E pkt \in packets :
           Set([Cur EXCEPT !.inState = "finished", !.inData = pkt], "env")

\* host UART: the packet layer rejects the bytes it received
HostPacketError(errors) ==
    /\ inState = "started"
    /\ \E e \in errors :
           Set([Cur EXCEPT !.inState = "error", !.inError = e], "env")

\* host UART: the last byte of the reply has left
HostDrains ==
    /\ outSending
    /\ Set([Cur EXCEPT !.outSending = FALSE], "env")

\* the consumer of the command queue takes a byte
CommandPop ==
    /\ queue # <<>>
    /\ Set([Cur EXCEPT !.queue = Tail(queue)], "env")

\* the command module completes the pause or the unpause it was asked for
PauseSettles ==
    /\ pauseState \in {"ENTER", "EXIT"}
    /\ Set([Cur EXCEPT !.pauseState =
                IF pauseState = "ENTER" THEN "PAUSED" ELSE "NONE"], "env")

BuildStartNotification(names) ==
    \E buf \in names :
        Set(handleBuildStartNotification(Cur, buf), "env")

BuildStopNotification ==
    \E copies \in {<<0, 0>>, <<2, 0>>} :
        Set(handleBuildStopNotification(Cur, copies[1], copies[2]), "env")

StopBuild == Set(stopBuild(Cur), "stopBuild")

PauseBuild ==
    \E p \in BOOLEAN :
        Set(pauseBuild(Cur, p), IF p THEN "pauseBuild" ELSE "unpauseBuild")

StartBuildFromSD(fnames) ==
    \E fname \in fnames, e \in {"SD_SUCCESS", "SD_CWD", "SD_ERR_NO_CARD"} :
        Set(startBuildFromSD(Cur, fname, e), "env")

ResetBuild == Set(resetBuild(Cur), "env")

\* getMachineName loads the name when it is empty
GetMachineName ==
    /\ machineName = <<>>
    /\ Set([Cur EXCEPT !.machineName = <<84>>], "env")

\* the SD card module reaches the end of the file it plays back
SdPlaybackEnds ==
    /\ isPlaying
    /\ Set([Cur EXCEPT !.isPlaying = FALSE], "env")

\* another user of the tool link takes or releases the tool lock
ToolLockChanges == Set([Cur EXCEPT !.toolLocked = ~toolLocked], "env")

\* ---------------------------------------------------------------------
\* Spec: the build lifecycle and the reset sequencing.  The host sends the
\* queries that touch them; the tool answers a relayed pause at once.

LifecyclePackets == { <<HOST_CMD_RESET>>, <<HOST_CMD_PAUSE>> }

HostTick == Tick({[timeout |-> FALSE, payload |-> <<RC_OK>>]})

HostSendsQuery == HostFinishesPacket(LifecyclePackets)

BuildStarts == BuildStartNotification({<<0>>})

SdBuildStarts == StartBuildFromSD({<<>>})

Next ==
    \/ HostTick
    \/ AdvanceTime
    \/ HostSendsQuery
    \/ HostDrains
    \/ PauseSettles
    \/ BuildStarts
    \/ BuildStopNotification
    \/ StopBuild
    \/ PauseBuild
    \/ SdBuildStarts
    \/ ResetBuild
    \/ SdPlaybackEnds

Spec == Init /\ [][Next]_vars

\* ---------------------------------------------------------------------
\* Claims checked under Spec

ActiveBuild(b) == b \in {"RUNNING", "PAUSED", "CANCELLING"}

\* the tick just taken ran the soft reset branch
ResetFired == last.op = "tick" /\ last.branch = "reset"

\* the timeout t was armed afresh with duration d by the step
Restarted(t, tNew, d) == tNew = TimeoutStart(d) /\ tNew # t

\* C2: a cancel issued while BuildState is already CANCELLING or CANCELED
\* (stopBuild, or a RESET that takes the cancel path) restarts neither the
\* reset guard of a reset that is pending nor the cancel grace of a
\* notification that is pending, and when CANCELED it does not raise the
\* cancel notification flag again.
C2_CancelIdempotent ==
    [][ ( /\ \/ last'.op = "stopBuild"
             \/ /\ last'.op = "tick"
                /\ last'.indicated = "ERR_RESET_DURING_BUILD"
                /\ clearForEstop = 1
          /\ buildState \in {"CANCELLING", "CANCELED"} )
        => /\ do_host_reset =>
                 ~Restarted(do_host_reset_timeout, do_host_reset_timeout',
                            HOST_RESET_TIMEOUT_MS)
           /\ cancelBuild =>
                 ~Restarted(cancel_timeout, cancel_timeout', CANCEL_TIMEOUT_MS)
           /\ buildState = "CANCELED" => (cancelBuild' => cancelBuild) ]_vars

\* C4: whenever BuildState is RUNNING, PAUSED or CANCELLING, HostState is
\* BUILDING, BUILDING_FROM_SD or CANCEL_BUILD.
C4_StatePairs ==
    ActiveBuild(buildState) =>
        currentState \in {"BUILDING", "BUILDING_FROM_SD", "CANCEL_BUILD"}

\* C5 as stated: the soft reset branch is taken only by a tick that finds
\* the outbound packet not sending.
C5_NoResetWhileSending ==
    [][ ResetFired' => ~outSending ]_vars

\* C5 amended: the soft reset branch is taken only by a tick that finds the
\* outbound packet not sending, or the 200 ms reset guard elapsed.
C5_ResetWaitsForReplyOrGuard ==
    [][ ResetFired' =>
          \/ ~outSending
          \/ do_host_reset /\ TimeoutPoll(do_host_reset_timeout).elapsed ]_vars

\* a reset that fired while the reply was still on its way out
C5_Witness == ResetFired /\ outSending

\* the tick about to be taken runs the error branch or the finished-packet
\* branch, both of which begin with out.reset()
RewritesReply ==
    /\ last'.op = "tick"
    /\ last'.branch \notin {"hold", "reset", "idle"}

\* C27: a tick resets and rewrites the outbound packet, in the error branch
\* or in the finished-packet branch, only if it finds the packet not
\* sending.
C27_NoRewriteWhileSending ==
    [][ RewritesReply => ~outSending ]_vars

\* what does hold: a tick rewrites a packet that is still sending only with
\* a reset pending whose guard has elapsed and a cancel notification pending
\* whose grace has not
RewriteWhileSendingOnlyInGrace ==
    [][ (RewritesReply /\ outSending)
        => /\ do_host_reset \/ (last'.finalized /\ buildState = "CANCELLING")
           /\ TimeoutPoll(do_host_reset_timeout).elapsed
           /\ cancelBuild \/ (last'.finalized /\ currentState = "BUILDING")
           /\ ~TimeoutPoll(cancel_timeout).elapsed ]_vars

\* the cancel notification is on its way to the host
NotificationSending == outSending /\ out = <<RC_CANCEL_BUILD>>

\* the 1 second cancel grace is running
GraceRunning == cancel_timeout.active /\ cancel_timeout.left > 0

\* C6 as stated: the reset does not fire while the cancel notification is
\* still to be written and the grace has not elapsed, nor while the
\* notification is being transmitted and the grace has not elapsed.
C6_ResetWaitsForNotification ==
    [][ ResetFired' =>
          /\ cancelBuild => TimeoutPoll(cancel_timeout).elapsed
          /\ ~(NotificationSending /\ GraceRunning) ]_vars

\* C6 amended: while the notification is still to be written the reset
\* waits for the grace to elapse; while the notification is being
\* transmitted inside the grace it waits until the 200 ms reset guard has
\* elapsed.
C6_ResetWaitsForNotificationOrGuard ==
    [][ ResetFired' =>
          /\ cancelBuild => TimeoutPoll(cancel_timeout).elapsed
          /\ (NotificationSending /\ GraceRunning) =>
                 TimeoutPoll(do_host_reset_timeout).elapsed ]_vars

\* a reset that fired on an elapsed grace with the notification never sent
C6_Witness == ResetFired /\ cancelBuild /\ cancel_timeout.elapsed

\* C7: at the end of the tick in which the reset fires no build is active,
\* both names are empty, the three pending flags are false, HostState is
\* READY and the inbound packet timeout is not active.
C7_ResetClearsAll ==
    ResetFired =>
        /\ ~ActiveBuild(buildState)
        /\ machineName = <<>>
        /\ buildName[1] = 0
        /\ ~do_host_reset /\ ~hard_reset /\ ~cancelBuild
        /\ currentState = "READY"
        /\ ~packet_in_timeout.active

\* C9: pauseBuild(p, h) changes neither BuildState, nor the print timer,
\* nor the pause request of the command queue when the queue already
\* reports pause state p or a pause or unpause is settling; so a second
\* pauseBuild(true, h) right after the first changes nothing.
C9_PauseBuildIdempotent ==
    [][ /\ ( /\ last'.op \in {"pauseBuild", "unpauseBuild"}
             /\ \/ isPaused(Cur) = (last'.op = "pauseBuild")
                \/ pauseIntermediateState(Cur) )
           => UNCHANGED <<buildState, print_time, pauseState>>
        /\ (last.op = "pauseBuild" /\ last'.op = "pauseBuild")
           => UNCHANGED <<buildState, print_time, pauseState>> ]_vars

\* a second pauseBuild(true, h) made while the first pause is settling
C9_Witness ==
    /\ last.op = "pauseBuild" /\ ~last.changed
    /\ pauseState = "ENTER" /\ buildState = "PAUSED" /\ print_time.paused

\* the queue is pausing, paused or unpausing
PausedOrSettling == pauseState # "NONE"

\* the step about to be taken handles a request that calls stopBuild: the
\* API call, or the tick that takes up ABORT or RESET
CallsStopBuild ==
    \/ last'.op = "stopBuild"
    \/ /\ last'.op = "tick" /\ last'.branch = "query"
       /\ inState = "finished" /\ Len(inData) >= 1
       /\ inData[1] \in {HOST_CMD_ABORT, HOST_CMD_RESET}

\* C21: stopBuild called while the queue is neither paused nor settling
\* sets BuildState to CANCELLING and requests the pause without arming the
\* reset or the cancel notification; called while paused or settling it
\* finalizes in the same call; a tick finalizes only when it finds
\* BuildState CANCELLING with the queue in its stable paused state, and
\* leaves BuildState CANCELED; BuildState goes from CANCELLING to CANCELED
\* in no other way.
C21_CancelWaitsForPause ==
    [][ /\ (last'.op = "stopBuild" /\ ~PausedOrSettling)
               => /\ buildState' = "CANCELLING" /\ pauseState' = "ENTER"
                  /\ UNCHANGED << do_host_reset, do_host_reset_timeout,
                                  cancelBuild, cancel_timeout, currentState >>
        /\ (last'.op = "stopBuild" /\ PausedOrSettling)
               => /\ buildState' = "CANCELED" /\ do_host_reset'
                  /\ do_host_reset_timeout' = TimeoutStart(HOST_RESET_TIMEOUT_MS)
        /\ last'.finalized
               => /\ last'.op = "tick"
                  /\ buildState = "CANCELLING" /\ pauseState = "PAUSED"
                  /\ buildState' = "CANCELED"
        /\ (buildState = "CANCELLING" /\ buildState' = "CANCELED")
               => \/ last'.finalized
                  \/ CallsStopBuild /\ PausedOrSettling ]_vars

\* the tick that found the pause complete has finalized the cancel of a
\* host build
C21_Witness ==
    /\ last.op = "tick" /\ last.finalized
    /\ buildState = "CANCELED" /\ currentState = "CANCEL_BUILD"
    /\ do_host_reset /\ cancelBuild

\* C24: the deferred reset fires at most once per request.  The reset
\* fires only if a request is pending, and firing consumes the request;
\* a request becomes pending only by a RESET or ABORT taken up by a tick or
\* by a cancel that stopBuildNow completes; two ticks in a row never both
\* fire the reset.
C24_ResetAtMostOncePerRequest ==
    [][ /\ ResetFired'
               => /\ do_host_reset \/ last'.finalized
                  /\ ~do_host_reset'
                  /\ ~ResetFired
        /\ (~do_host_reset /\ do_host_reset')
               => CallsStopBuild \/ last'.finalized ]_vars

\* the reset has fired for a request made by RESET and none is pending
C24_Witness ==
    /\ ResetFired /\ ~do_host_reset /\ ~cancelBuild
    /\ currentState = "READY" /\ out = <<RC_OK>>

\* the step about to be taken is stopBuildNow and nothing after it: the
\* stopBuild call made while paused or settling, or the tick that
\* finalizes the cancel and then returns at the send gate
OnlyStopBuildNow ==
    \/ last'.op = "stopBuild" /\ PausedOrSettling
    \/ last'.op = "tick" /\ last'.finalized /\ last'.branch = "hold"

\* C22: stopBuildNow arms the 1 second cancel grace, sets the cancel
\* notification flag and moves HostState to CANCEL_BUILD exactly when
\* HostState was BUILDING on entry; whatever HostState was, it stops the
\* print timer, sets do_host_reset with the 200 ms guard armed and leaves
\* BuildState CANCELED.
C22_StopBuildNowContract ==
    [][ OnlyStopBuildNow
        => /\ IF currentState = "BUILDING"
              THEN /\ currentState' = "CANCEL_BUILD"
                   /\ cancelBuild'
                   /\ cancel_timeout' = TimeoutStart(CANCEL_TIMEOUT_MS)
              ELSE UNCHANGED << currentState, cancelBuild, cancel_timeout >>
           /\ print_time' = TimeoutNew /\ print_time_hours' = 0
           /\ do_host_reset'
           /\ do_host_reset_timeout' = TimeoutStart(HOST_RESET_TIMEOUT_MS)
           /\ buildState' = "CANCELED" ]_vars

\* stopBuildNow has run for a build from SD: the reset is armed, the
\* cancel notification is not
C22_Witness ==
    /\ last.op = "stopBuild" /\ last.changed
    /\ currentState = "BUILDING_FROM_SD" /\ buildState = "CANCELED"
    /\ do_host_reset /\ ~cancelBuild /\ ~cancel_timeout.active
    /\ do_host_reset_timeout = TimeoutStart(HOST_RESET_TIMEOUT_MS)

\* ---------------------------------------------------------------------
\* FairSpec: the reset sequencing under the scheduling the firmware has.
\* The main loop calls runHostSlice for ever, the clock runs, and the
\* command module completes the pause it was asked for.  The host may send
\* queries and may or may not drain the reply; build notifications come out
\* of the command queue, which does not run while a pause is requested.  No
\* other caller uses stopBuild, pauseBuild or resetBuild.

QueueStartsBuild == pauseState = "NONE" /\ BuildStarts

QueueStopsBuild == pauseState = "NONE" /\ BuildStopNotification

FairNext ==
    \/ HostTick
    \/ AdvanceTime
    \/ HostSendsQuery
    \/ HostDrains
    \/ PauseSettles
    \/ QueueStartsBuild
    \/ QueueStopsBuild

FairSpec ==
    /\ Init
    /\ [][FairNext]_vars
    /\ WF_vars(HostTick)
    /\ WF_vars(AdvanceTime)
    /\ WF_vars(PauseSettles)

\* ---------------------------------------------------------------------
\* Claims checked under FairSpec

\* the tick just taken handled a RESET that found HostState BUILDING
ResetDuringBuild ==
    /\ last.op = "tick"
    /\ last.indicated = "ERR_RESET_DURING_BUILD"
    /\ currentState \in {"BUILDING", "CANCEL_BUILD"}

\* C3 as stated: a RESET processed while HostState is BUILDING takes the
\* cancel path, which leaves BuildState CANCELLING (pause under way) or
\* CANCELED at the end of that tick.
C3_ResetDiverted ==
    [][ (currentState = "BUILDING" /\ ResetDuringBuild')
          => buildState' \in {"CANCELLING", "CANCELED"} ]_vars

\* C3 amended: a RESET processed while HostState is BUILDING and the e-stop
\* policy is 1 requests no reset of its own: it leaves BuildState CANCELLING
\* with a pause requested, or CANCELED with HostState CANCEL_BUILD and the
\* cancel notification pending.  BuildState then becomes CANCELED with
\* HostState CANCEL_BUILD, and HostState settles to READY; the reset that
\* ends CANCEL_BUILD fires only once the notification was written in answer
\* to a host packet or the cancel grace elapsed.
C3_ResetDivertedUnderPolicy ==
    /\ [][ (currentState = "BUILDING" /\ clearForEstop = 1 /\ ResetDuringBuild')
             => /\ buildState' \in {"CANCELLING", "CANCELED"}
                /\ buildState' = "CANCELLING" =>
                       pauseState' = "ENTER" /\ do_host_reset' = do_host_reset
                /\ buildState' = "CANCELED" =>
                       currentState' = "CANCEL_BUILD" /\ cancelBuild' ]_vars
    /\ [][ (currentState = "CANCEL_BUILD" /\ ResetFired')
             => /\ currentState' = "READY"
                /\ ~cancelBuild \/ TimeoutPoll(cancel_timeout).elapsed ]_vars
    /\ (ResetDuringBuild /\ clearForEstop = 1)
           ~> (currentState = "CANCEL_BUILD" /\ buildState = "CANCELED")
    /\ (currentState = "CANCEL_BUILD") ~> (currentState = "READY")

\* a RESET during a build that is now pausing on its way to the cancel
C3_Witness ==
    /\ ResetDuringBuild /\ clearForEstop = 1
    /\ buildState = "CANCELLING" /\ pauseState = "ENTER"

\* C8: once a reset is requested it fires, whether or not the host drains
\* the reply or sends another packet: a tick that finds the reset pending
\* fires it unless the reply is sending inside the 200 ms guard or the
\* cancel notification is pending inside the 1 second grace (or the tick
\* itself finalizes a cancel, which arms both afresh).
C8_ResetEventuallyFires ==
    /\ do_host_reset ~> ResetFired
    /\ [][ ( /\ last'.op = "tick"
             /\ do_host_reset
             /\ ~(buildState = "CANCELLING" /\ pauseState = "PAUSED")
             /\ (outSending => TimeoutPoll(do_host_reset_timeout).elapsed)
             /\ (cancelBuild => TimeoutPoll(cancel_timeout).elapsed) )
           => ResetFired' ]_vars

\* a reset that fired with the reply never drained and no packet at hand
C8_Witness ==
    /\ ResetFired /\ outSending /\ inState = "idle"
    /\ do_host_reset_timeout.elapsed

\* ---------------------------------------------------------------------
\* SpecQueue: the command queue.  The host sends action commands, the
\* stepper interrupt consumes the queue between two ticks, and a playback
\* from the SD card starts and ends.

CommandPackets == { <<HOST_CMD_ACTION>>, <<HOST_CMD_ACTION, 1>> }

HostSendsCommand == HostFinishesPacket(CommandPackets)

QueueNext ==
    \/ HostTick
    \/ HostSendsCommand
    \/ HostDrains
    \/ CommandPop
    \/ SdBuildStarts
    \/ SdPlaybackEnds

SpecQueue == Init /\ [][QueueNext]_vars

\* the tick about to be taken hands the finished packet to the handlers
Dispatches ==
    /\ last'.op = "tick"
    /\ last'.branch \notin {"hold", "reset", "cancel", "error", "idle"}
    /\ inState = "finished"

\* C1: an action command handled while neither capturing nor playing back
\* is either appended whole and in order to the queue and answered OK, or
\* answered buffer-overflow with the queue as it was.
C1_EnqueueAllOrNothing ==
    [][ ( /\ Dispatches
          /\ Len(inData) >= 1 /\ inData[1] >= 128
          /\ ~isCapturing /\ ~isPlaying )
        => \/ queue' = queue \o inData /\ out' = <<RC_OK>>
           \/ queue' = queue /\ out' = <<RC_BUFFER_OVERFLOW>> ]_vars

\* a command refused although the queue had room for a part of it
C1_Witness ==
    /\ last.op = "tick" /\ last.branch = "overflow"
    /\ out = <<RC_BUFFER_OVERFLOW>>
    /\ 0 < Len(queue) /\ Len(queue) < CommandBufferSize

\* ---------------------------------------------------------------------
\* SpecTool: the packet layer and the tool link.  Packets arrive in two
\* steps or go wrong on the way, the host sends tool queries of every
\* length, the tool answers or times out, and the tool lock is taken and
\* released by other users.

ToolQueryPackets ==
    { <<HOST_CMD_TOOL_QUERY>>, <<HOST_CMD_TOOL_QUERY, 0>>,
      <<HOST_CMD_TOOL_QUERY, 0, 1>> }

ToolTick == Tick(ToolResponses)

HostSendsToolQuery == HostFinishesPacket(ToolQueryPackets)

HostPacketFails == HostPacketError(PacketErrors)

ToolNext ==
    \/ ToolTick
    \/ AdvanceTime
    \/ HostStartsPacket
    \/ HostSendsToolQuery
    \/ HostPacketFails
    \/ HostDrains
    \/ ToolLockChanges

SpecTool == Init /\ [][ToolNext]_vars

\* the answer of the tick about to be taken: packet-error, the truncated
\* command indicator, no try at the tool lock, nothing sent to the tool
RejectsToolQuery ==
    /\ out' = <<RC_PACKET_ERROR>>
    /\ last'.indicated = "ERR_HOST_TRUNCATED_CMD"
    /\ ~last'.lockTried /\ ~last'.toolRan
    /\ last'.toolOut = <<>>

RelayPackets == ToolQueryPackets \cup { <<HOST_CMD_PAUSE>> }

RelayResponses ==
    ToolResponses \cup { [timeout |-> FALSE, payload |-> <<RC_OK, 7>>] }

RelayTick == Tick(RelayResponses)

HostSendsRelay == HostFinishesPacket(RelayPackets)

RelayNext ==
    \/ RelayTick
    \/ HostSendsRelay
    \/ HostDrains
    \/ ToolLockChanges
    \/ PauseSettles

SpecRelay == Init /\ [][RelayNext]_vars

\* the tick about to be taken runs the tool transaction sequence: a tool
\* query past its length check, or a PAUSE that is not ignored
EntersToolSequence ==
    /\ Dispatches
    /\ Len(inData) >= 1
    /\ \/ inData[1] = HOST_CMD_TOOL_QUERY /\ Len(inData) >= 2
       \/ inData[1] = HOST_CMD_PAUSE /\ ~pauseIntermediateState(Cur)

\* what the tool sequence appended to the reply of the tick just taken:
\* handlePause puts its own RC_OK behind it
relayed(reply, pkt) ==
    IF pkt[1] = HOST_CMD_PAUSE THEN SubSeq(reply, 1, Len(reply) - 1) ELSE reply

\* C11: when the tool lock is not acquired within its bound, handleToolQuery
\* and doToolPause answer downstream-timeout, raise the lock-timeout
\* indicator, leave the tool outbound packet untouched and start no
\* transaction.
C11_LockTimeoutSendsNothing ==
    [][ (EntersToolSequence /\ toolLocked)
        => /\ relayed(out', inData) = <<RC_DOWNSTREAM_TIMEOUT>>
           /\ last'.indicated = "ERR_SLAVE_LOCK_TIMEOUT"
           /\ last'.toolOut = <<>>
           /\ ~last'.toolRan ]_vars

\* a PAUSE that ran into the taken lock
C11_Witness ==
    /\ last.op = "tick" /\ last.branch = "query"
    /\ last.indicated = "ERR_SLAVE_LOCK_TIMEOUT"
    /\ out = <<RC_DOWNSTREAM_TIMEOUT, RC_OK>>
    /\ toolLocked

\* C17: the reply to a PAUSE request has OK as its first byte in every
\* case: pause ignored while settling, tool pause relayed and answered,
\* tool transaction timed out, tool lock not acquired.
C17_PauseReplyStartsOK ==
    [][ (Dispatches /\ Len(inData) >= 1 /\ inData[1] = HOST_CMD_PAUSE)
        => (out' # <<>> /\ out'[1] = RC_OK) ]_vars

\* ---------------------------------------------------------------------
\* SpecPacket: the inbound packet and its timeout.  A packet starts,
\* finishes, stalls or goes wrong between ticks while the reply to the
\* packet before it may still be on its way out; RESET is among the
\* packets, so the deferred reset is taken too.

PacketLayerPackets == { <<HOST_CMD_INIT>>, <<HOST_CMD_RESET>> }

HostSendsPacket == HostFinishesPacket(PacketLayerPackets)

PacketNext ==
    \/ HostTick
    \/ AdvanceTime
    \/ HostStartsPacket
    \/ HostSendsPacket
    \/ HostPacketFails
    \/ HostDrains

SpecPacket == Init /\ [][PacketNext]_vars

\* the inbound packet is started and neither finished nor in error
PartiallyReceived == inState = "started"

\* C12 as stated: at the end of every tick the packet timeout is active
\* exactly when the inbound packet is partially received.
C12_ArmedIffPartial ==
    last.op = "tick" => (packet_in_timeout.active <=> PartiallyReceived)

\* C12 amended: the same at the end of every tick that got past the send
\* gate and did not perform the reset.
C12_ArmedIffPartialPastGate ==
    (last.op = "tick" /\ last.branch \notin {"hold", "reset"})
        => (packet_in_timeout.active <=> PartiallyReceived)

\* a tick that armed the timeout for a packet under way
C12_Witness ==
    /\ last.op = "tick" /\ last.branch = "idle"
    /\ PartiallyReceived /\ packet_in_timeout.active
    /\ packet_in_timeout.left = HOST_PACKET_TIMEOUT_MS

\* ---------------------------------------------------------------------
\* SpecVersion: the VERSION request.  The host sends VERSION with every
\* 16 bit host version, low byte first.

HostVersions == 0 .. 65535

VersionPacket(v) == <<HOST_CMD_VERSION, v % 256, v \div 256>>

VersionPackets == { VersionPacket(v) : v \in HostVersions }

HostSendsVersion == HostFinishesPacket(VersionPackets)

VersionNext ==
    \/ HostTick
    \/ HostSendsVersion
    \/ HostDrains

SpecVersion == Init /\ [][VersionNext]_vars

\* the tick about to be taken answers a VERSION request carrying v
AnswersVersion(v) == Dispatches /\ inData = VersionPacket(v)

\* the two replies of handleVersion
VersionZeroReply == <<RC_OK, 0, 0>>

FirmwareVersionReply ==
    <<RC_OK, FIRMWARE_VERSION % 256, FIRMWARE_VERSION \div 256>>

\* C13 as stated: VERSION with 29 and with 38 is answered OK, 0x0000 and
\* VERSION with 39 is answered OK, firmware version.
C13_VersionScenario ==
    [][ /\ AnswersVersion(29) => out' = VersionZeroReply
        /\ AnswersVersion(38) => out' = VersionZeroReply
        /\ AnswersVersion(39) => out' = FirmwareVersionReply ]_vars

\* C13 amended: VERSION with 29 is answered OK, firmware version, with 38
\* OK, 0x0000 and with 39 OK, firmware version.
C13_VersionScenarioLegacyAccepted ==
    [][ /\ AnswersVersion(29) => out' = FirmwareVersionReply
        /\ AnswersVersion(38) => out' = VersionZeroReply
        /\ AnswersVersion(39) => out' = FirmwareVersionReply ]_vars

\* a VERSION request was answered with the firmware version
C13_Witness ==
    /\ last.op = "tick" /\ last.branch = "query"
    /\ out = FirmwareVersionReply /\ outSending
    /\ FIRMWARE_VERSION # 0

\* the host version carried by the VERSION request waiting for its tick
CarriedVersion == inData[2] + 256 * inData[3]

\* C14: for every 16 bit host version v the answer is OK, version 0
\* exactly when v is below 39 and is not 29, and OK, firmware version for
\* 29 and for every v from 39 up to 65535.
C14_VersionZeroIffTooOld ==
    [][ ( /\ Dispatches
          /\ Len(inData) = 3 /\ inData[1] = HOST_CMD_VERSION
          /\ CarriedVersion \in HostVersions )
        => IF CarriedVersion < 39 /\ CarriedVersion # 29
           THEN out' = VersionZeroReply
           ELSE out' = FirmwareVersionReply ]_vars

\* ---------------------------------------------------------------------
\* SpecPrintTime: the print timer.  A build starts, half hours pass, the
\* build is paused and resumed through pauseBuild and the pause settles.
\* The host loop runs far more often than once an hour ("print time is
\* precise to the host loop frequency"): the clock does not pass a run
\* out print timer before a tick has seen it.

PrintTimePasses ==
    /\ print_time.active /\ ~print_time.paused /\ print_time.left > 0
    /\ Set([Cur EXCEPT !.print_time = TimeoutElapse(print_time, PrintTimeStep)],
           "env")

PrintNext ==
    \/ HostTick
    \/ PrintTimePasses
    \/ BuildStarts
    \/ PauseBuild
    \/ PauseSettles

SpecPrintTime == Init /\ [][PrintNext]_vars

\* an hour of unpaused time is over and no tick has counted it yet
HourIsUp == print_time.active /\ ~print_time.paused /\ print_time.left = 0

\* C15: the hours counter goes up by exactly 1 on the tick that sees an
\* hour of unpaused time over, whatever the count so far, and the timer
\* runs on for the next hour; no other tick and no passing of time changes
\* it; while the build is paused through pauseBuild neither the counter
\* nor the time left to the hour changes.
C15_HoursCountUnpausedTime ==
    [][ /\ (last'.op = "tick" /\ HourIsUp)
               => /\ print_time_hours' = print_time_hours + 1
                  /\ print_time' = TimeoutStart(ONE_HOUR_MS)
        /\ (last'.op = "tick" /\ ~HourIsUp)
               => print_time_hours' = print_time_hours
        /\ (last'.op = "env" /\ print_time'.active /\ print_time.active
                /\ print_time'.left < print_time.left)
               => print_time_hours' = print_time_hours
        /\ (print_time.paused /\ print_time'.paused)
               => /\ print_time_hours' = print_time_hours
                  /\ print_time'.left = print_time.left ]_vars

\* ---------------------------------------------------------------------
\* SpecDispatch: the dispatcher.  The host sends packets of every kind:
\* empty, action commands, the queries of the model and an unknown query
\* opcode; builds start from the host and from SD, so that capture,
\* playback and a pending cancel notification are met as well.

DispatchPackets == Packets \cup { VersionPacket(39) }

HostSendsAny == HostFinishesPacket(DispatchPackets)

DispatchNext ==
    \/ HostTick
    \/ HostSendsAny
    \/ HostDrains
    \/ BuildStarts
    \/ SdBuildStarts
    \/ SdPlaybackEnds

SpecDispatch == Init /\ [][DispatchNext]_vars

\* the query opcodes of the model's processQueryPacket switch
KnownQueries ==
    { HOST_CMD_VERSION, HOST_CMD_INIT, HOST_CMD_ABORT, HOST_CMD_RESET,
      HOST_CMD_PAUSE, HOST_CMD_TOOL_QUERY, HOST_CMD_GET_BUILD_NAME,
      HOST_CMD_PLAYBACK_CAPTURE }

\* the tick about to be taken takes up the finished inbound packet
TakesUpPacket ==
    /\ last'.op = "tick"
    /\ last'.branch \notin {"hold", "reset", "error", "idle"}
    /\ inState = "finished"

\* C16: every finished packet a tick takes up gets exactly one response,
\* which is sent: the cancel notification if one is pending, else the
\* answer of processCommandPacket if the action bit is set, else the answer
\* of processQueryPacket if the opcode is a known query, else the
\* unsupported-command code, and that code in no other case.
C16_OneResponseByPrecedence ==
    [][ TakesUpPacket
        => /\ outSending' /\ inState' = "idle" /\ out' # <<>>
           /\ IF last'.branch = "cancel"
              THEN out' = <<RC_CANCEL_BUILD>>
              ELSE IF Len(inData) >= 1 /\ inData[1] >= 128
              THEN /\ last'.branch \in {"capture", "busy", "command", "overflow"}
                   /\ out' \in { <<RC_OK>>, <<RC_BOT_BUILDING>>,
                                 <<RC_BUFFER_OVERFLOW>> }
              ELSE IF Len(inData) >= 1 /\ inData[1] \in KnownQueries
              THEN /\ last'.branch = "query"
                   /\ queue' = queue
                   /\ out'[Len(out')] # RC_CMD_UNSUPPORTED
              ELSE /\ last'.branch = "unsupported"
                   /\ out' = <<RC_CMD_UNSUPPORTED>> ]_vars

\* an unknown query opcode was answered unsupported-command
C16_Witness ==
    /\ last.op = "tick" /\ last.branch = "unsupported"
    /\ out = <<RC_CMD_UNSUPPORTED>> /\ outSending

\* the tick about to be taken reaches the finished-packet branch with the
\* cancel notification pending; the flag was set before the tick or by the
\* cancel the tick finalizes at its head
TakesUpPacketCancelled ==
    /\ TakesUpPacket
    /\ cancelBuild \/ (last'.finalized /\ currentState = "BUILDING")

\* C26: with the cancel notification pending, the finished packet a tick
\* takes up, whatever its opcode, is answered RC_CANCEL_BUILD alone and is
\* not dispatched (queue, pause, tool link and reset request as before), and
\* the flag is cleared in that step; a notification is sent only with the
\* flag set, and the flag is set only by a step that calls stopBuild or
\* stopBuildNow.
C26_CancelNotificationPreempts ==
    [][ /\ TakesUpPacketCancelled
           => /\ last'.branch = "cancel"
              /\ out' = <<RC_CANCEL_BUILD>> /\ outSending'
              /\ ~cancelBuild'
              /\ queue' = queue
              /\ ~last'.toolRan /\ ~last'.lockTried
              /\ ~last'.finalized
                 => UNCHANGED << do_host_reset, pauseState, buildState,
                                 buildName >>
        /\ (last'.op = "tick" /\ last'.branch = "cancel")
           => TakesUpPacketCancelled
        /\ (~cancelBuild /\ cancelBuild')
           => \/ CallsStopBuild \/ last'.finalized
              \/ ResetFired' /\ buildState \in {"RUNNING", "PAUSED"} ]_vars

\* an action command that found the cancel notification pending: the queue
\* is empty and the host was told of the cancel
C26_Witness ==
    /\ last.op = "tick" /\ last.branch = "cancel"
    /\ out = <<RC_CANCEL_BUILD>> /\ outSending /\ ~cancelBuild
    /\ queue = <<>> /\ currentState = "CANCEL_BUILD"

\* ---------------------------------------------------------------------
\* SpecSequence: the tool transaction sequence step by step.  A handler
\* enters the sequence, each pass of its two loops is a step, time passes
\* between the passes, the tool's reply comes in or stays out, and the
\* tool lock is taken and released by its other users.  The firmware runs
\* on one cooperative context: a new invocation enters only when the one
\* before it has returned.

hostVars ==
    << currentState, buildState, do_host_reset, hard_reset, cancelBuild,
       packet_in_timeout, cancel_timeout, do_host_reset_timeout,
       print_time, print_time_hours, machineName, buildName,
       inState, inData, inError, out, outSending, queue, pauseState,
       isCapturing, isPlaying, toolLocked, clearForEstop, last >>

hostVars_NoLast ==
    << currentState, buildState, do_host_reset, hard_reset, cancelBuild,
       packet_in_timeout, cancel_timeout, do_host_reset_timeout,
       print_time, print_time_hours, machineName, buildName,
       inState, inData, inError, out, outSending, queue, pauseState,
       isCapturing, isPlaying, toolLocked, clearForEstop >>

SequenceRequests ==
    { <<"pause", <<0, SLAVE_CMD_PAUSE_UNPAUSE>>>>, <<"query", <<0, 1>>>> }

SeqEnters ==
    /\ toolSeq.pc = "idle"
    /\ toolSeq.open < MaxOpen
    /\ \E r \in SequenceRequests :
           toolSeq' = enterSequence(toolSeq, r[1], r[2])
    /\ UNCHANGED << hostVars, copiesToPrint, copiesPrinted >>

SeqLockLoop ==
    /\ toolSeq.pc = "lock"
    /\ toolSeq' = lockLoopPass(toolSeq, toolLocked)
    /\ UNCHANGED << hostVars, copiesToPrint, copiesPrinted >>

SeqPumpLoop ==
    /\ toolSeq.pc = "pump"
    /\ toolSeq' = pumpLoopPass(toolSeq)
    /\ UNCHANGED << hostVars, copiesToPrint, copiesPrinted >>

\* time passes while a timeout of the sequence is running
SeqClock ==
    /\ \/ toolSeq.pc = "lock" /\ toolSeq.acquire > 0
       \/ toolSeq.open > 0 /\ toolSeq.linkLeft > 0
    /\ toolSeq' =
           [toolSeq EXCEPT
               !.acquire = IF @ > SequenceTimeStep
                           THEN @ - SequenceTimeStep ELSE 0,
               !.linkLeft = IF @ > SequenceTimeStep
                            THEN @ - SequenceTimeStep ELSE 0]
    /\ UNCHANGED << hostVars, copiesToPrint, copiesPrinted >>

\* tool UART: the reply of the tool is in
ToolAnswers ==
    /\ toolSeq.open > 0 /\ ~toolSeq.arrived
    /\ \E tr \in RelayResponses :
           /\ ~tr.timeout
           /\ toolSeq' = [toolSeq EXCEPT !.arrived = TRUE,
                                         !.linkIn = tr.payload]
    /\ UNCHANGED << hostVars, copiesToPrint, copiesPrinted >>

SequenceNext ==
    \/ SeqEnters
    \/ SeqLockLoop
    \/ SeqPumpLoop
    \/ SeqClock
    \/ ToolAnswers
    \/ ToolLockChanges

SpecSequence == Init /\ [][SequenceNext]_vars

\* the handler runs and the clock advances
FairSpecSequence ==
    /\ SpecSequence
    /\ WF_vars(SeqLockLoop)
    /\ WF_vars(SeqPumpLoop)
    /\ WF_vars(SeqClock)

C19_BothLoopsRunToolSlice ==
    toolSeq.iter \in {"lock", "pump"} => toolSeq.sliced

\* the sequence is over, with one of its three outcomes
SequenceOutcome(q) ==
    \/ /\ q.starts = 0
       /\ q.indicated = "ERR_SLAVE_LOCK_TIMEOUT"
       /\ q.reply = <<RC_DOWNSTREAM_TIMEOUT>>
    \/ /\ q.starts = 1 /\ q.open = 0
       /\ q.linkErr = "PACKET_TIMEOUT"
       /\ q.reply = <<RC_DOWNSTREAM_TIMEOUT>>
    \/ /\ q.starts = 1 /\ q.open = 0
       /\ q.linkErr # "PACKET_TIMEOUT"
       /\ q.linkIn # <<>> /\ q.reply = q.linkIn

\* C20: every invocation of the tool transaction sequence returns, and
\* when it returns it has started at most one transaction and has
\* appended to the host reply exactly one of: downstream-timeout for the
\* lock, downstream-timeout for the tool link's packet timeout, the tool's
\* reply payload as it came.
C20_SequenceEndsWithOneOutcome ==
    /\ [](toolSeq.pc # "idle" => <>(toolSeq.pc = "idle"))
    /\ [][ (toolSeq.pc # "idle" /\ toolSeq'.pc = "idle")
           => SequenceOutcome(toolSeq') ]_vars

\* a sequence that returned the two bytes of the tool's reply
C20_Witness ==
    /\ toolSeq.pc = "idle" /\ toolSeq.starts = 1
    /\ toolSeq.reply = <<RC_OK, 7>> /\ toolSeq.linkIn = <<RC_OK, 7>>

\* ---------------------------------------------------------------------
\* SpecCopies: the build stop notification and the copy counters.  Before
\* a build the counters of namespace command hold any two 8 bit values;
\* builds start from the host and from SD, and the queue hands on the
\* build stop notification.

CopyCounts == 0 .. 255

QueueLoadsCopies ==
    /\ buildState = "NONE" /\ copiesToPrint = 0 /\ copiesPrinted = 0
    /\ copiesToPrint' \in CopyCounts
    /\ copiesPrinted' \in CopyCounts
    /\ UNCHANGED << hostVars, toolSeq >>

QueueStopsWithCopies ==
    Set(handleBuildStopNotification(Cur, copiesToPrint, copiesPrinted),
        "buildStop")

CopiesNext ==
    \/ QueueLoadsCopies
    \/ BuildStarts
    \/ SdBuildStarts
    \/ QueueStopsWithCopies

SpecCopies == Init /\ [][CopiesNext]_vars

\* C23: handleBuildStopNotification finalizes the build (BuildState
\* FINISHED_NORMALLY, HostState READY, print timer stopped) exactly when
\* copiesToPrint is 0 or copiesPrinted is at least copiesToPrint - 1, and
\* changes nothing for every other pair of 8 bit counters.
C23_StopNotificationByCopies ==
    [][ last'.op = "buildStop"
        => IF copiesToPrint = 0 \/ copiesPrinted >= copiesToPrint - 1
           THEN /\ buildState' = "FINISHED_NORMALLY"
                /\ currentState' = "READY"
                /\ print_time' = TimeoutNew /\ print_time_hours' = 0
           ELSE UNCHANGED << hostVars_NoLast, toolSeq, copiesToPrint,
                             copiesPrinted >> ]_vars

\* the notification after the last of three copies has ended the build
C23_Witness ==
    /\ last.op = "buildStop" /\ last.changed
    /\ copiesToPrint = 3 /\ copiesPrinted = 2
    /\ buildState = "FINISHED_NORMALLY" /\ currentState = "READY"

\* ---------------------------------------------------------------------
\* SpecName: the build name.  Names of every length up to one byte more than
\* the buffer holds reach buildName through the build start notification of
\* the command queue, the PLAYBACK_CAPTURE request and startBuildFromSD, and
\* the host reads the name back with GET_BUILD_NAME.

\* the texts of at most n bytes, none of them NUL: the beginnings of
\* ABAB... and of BABA...
NameTexts(n) ==
    {[i \in 1 .. k |-> IF (i + p) % 2 = 0 THEN 65 ELSE 66] :
        k \in 0 .. n, p \in 0 .. 1}

\* C strings: the text and its terminator
NamesWithNul == {x \o <<0>> : x \in NameTexts(MAX_FILE_LEN + 1)}

\* a PLAYBACK_CAPTURE packet carries the file name after the opcode, with or
\* without the terminator
PlaybackPackets ==
    {<<HOST_CMD_PLAYBACK_CAPTURE>> \o x :
        x \in NameTexts(MAX_FILE_LEN + 1) \cup NamesWithNul}

NamePackets == {<<HOST_CMD_GET_BUILD_NAME>>} \cup PlaybackPackets

\* the tool link is not used here; sd is the answer of sdcard::startPlayback
NameResponses ==
    {[timeout |-> FALSE, payload |-> <<RC_OK>>, sd |-> e] :
        e \in {"SD_SUCCESS", "SD_CWD", "SD_ERR_NO_CARD"}}

NameTick == Tick(NameResponses)

HostSendsNameRequest == HostFinishesPacket(NamePackets)

QueueStartsNamedBuild == BuildStartNotification(NamesWithNul)

SdStartsNamedBuild == StartBuildFromSD(NamesWithNul)

NameNext ==
    \/ NameTick
    \/ HostSendsNameRequest
    \/ HostDrains
    \/ QueueStartsNamedBuild
    \/ SdStartsNamedBuild
    \/ SdPlaybackEnds

SpecName == Init /\ [][NameNext]_vars

\* the tick answers a GET_BUILD_NAME request
AnswersGetBuildName ==
    /\ last'.op = "tick" /\ last'.branch = "query"
    /\ inState = "finished" /\ Len(inData) >= 1
    /\ inData[1] = HOST_CMD_GET_BUILD_NAME

\* writes stay inside the array
NameWritesInBounds == DOMAIN buildName = 1 .. MAX_FILE_LEN

\* C25: after any sequence of build start notifications, PLAYBACK_CAPTURE
\* requests and startBuildFromSD calls, with names that fill or exceed the
\* buffer, the GET_BUILD_NAME reply is OK followed by at most MAX_FILE_LEN
\* name bytes the last of which is NUL, and no name write goes past the
\* buffer.
C25_BuildNameReplyTerminated ==
    [][ /\ NameWritesInBounds'
        /\ AnswersGetBuildName
           => /\ Len(out') >= 2 /\ Len(out') <= 1 + MAX_FILE_LEN
              /\ out'[1] = RC_OK
              /\ out'[Len(out')] = 0 ]_vars

\* what does hold: the reply is OK and the bytes of buildName up to the
\* first NUL or, if it holds none, all MAX_FILE_LEN of them; no write goes
\* past the buffer
BuildNameReplyBounded ==
    [][ /\ NameWritesInBounds'
        /\ AnswersGetBuildName
           => /\ Len(out') >= 2 /\ Len(out') <= 1 + MAX_FILE_LEN
              /\ out'[1] = RC_OK
              /\ \A i \in 2 .. Len(out') :
                    /\ out'[i] = buildName[i - 1]
                    /\ i < Len(out') => out'[i] # 0
              /\ out'[Len(out')] # 0
                 => /\ Len(out') = 1 + MAX_FILE_LEN
                    /\ \A i \in 1 .. MAX_FILE_LEN : buildName[i] # 0 ]_vars

====
